---------------------------- MODULE Spec2Model ----------------------------
(* Model of the data acquisition of src/covid19.py: the Streamlit session  *)
(* state (the key of the auto-refresh component of line 14, the keys set   *)
(* up at lines 34-45, the key stored at line 77) and the function          *)
(* fetch_latest_data (lines 49-70) that a run of the script calls once     *)
(* (line 74).                                                              *)
(*                                                                         *)
(* A response of the Ministry of Health page is abstracted to what the     *)
(* function reads from it: either the exception that requests.get /        *)
(* raise_for_status raises, or the texts of the nodes that                 *)
(* soup.select('.covid-case strong') returns, in document order.  A text   *)
(* is a sequence of one-character strings.                                 *)
EXTENDS Integers, Sequences, FiniteSets, TLC

(***************************************************************************)
(* Bounds of the model                                                     *)
(***************************************************************************)
MaxFields == 6      \* longest list of matched nodes with the text 7
MaxClock == 1       \* latest reading of the wall clock
MaxRefresh == 1     \* highest count of the auto-refresh component

(***************************************************************************)
(* Module-level constants of the script                                    *)
(***************************************************************************)
fallback_cases == <<6811444, 6640216, 161853, 0>>
fallback_global == 676681574
fallback_suspect == 1080
fallback_specimen == 13678
labels == <<"Confirmed", "Recovered", "Deaths", "Active Cases">>
datetime_min == 0
LiveData == "Live Data"
LatestData == "Latest Data from Ministry of Health"

(***************************************************************************)
(* int(num.text.replace('.', '').replace(',', ''))                         *)
(*                                                                         *)
(* A text is a sequence of Unicode code points.                            *)
(***************************************************************************)
\* ord() of the ASCII characters the inputs below are written with
ord(ch) ==
    CASE ch = "0" -> 48 [] ch = "1" -> 49 [] ch = "2" -> 50 [] ch = "3" -> 51
      [] ch = "4" -> 52 [] ch = "5" -> 53 [] ch = "6" -> 54 [] ch = "7" -> 55
      [] ch = "8" -> 56 [] ch = "9" -> 57
      [] ch = "\t" -> 9 [] ch = "\n" -> 10 [] ch = "\f" -> 12 [] ch = "\r" -> 13
      [] ch = " " -> 32 [] ch = "+" -> 43 [] ch = "," -> 44 [] ch = "-" -> 45
      [] ch = "." -> 46 [] ch = "/" -> 47 [] ch = "_" -> 95
      [] ch = "a" -> 97 [] ch = "n" -> 110 [] ch = "x" -> 120
Text(chars) == [i \in 1..Len(chars) |-> ord(chars[i])]

\* the code points int() takes as a decimal digit: the Unicode decimal digits
\* (category Nd), which come in runs of ten, 0 to 9; the first of each run
DigitZeros ==
    {48, 1632, 1776, 1984, 2406, 2534, 2662, 2790, 2918, 3046, 3174, 3302,
     3430, 3558, 3664, 3792, 3872, 4160, 4240, 6112, 6160, 6470, 6608,
     6784, 6800, 6992, 7088, 7232, 7248, 42528, 43216, 43264, 43472, 43504,
     43600, 44016, 65296, 66720, 68912, 69734, 69872, 69942, 70096, 70384,
     70736, 70864, 71248, 71360, 71472, 71904, 72016, 72784, 73040, 73120,
     92768, 92864, 93008, 120782, 120792, 120802, 120812, 120822, 123200,
     123632, 125264, 130032}
IsDigit(c) == \E z \in DigitZeros : c \in z..(z + 9)
DigitVal(c) == c - (CHOOSE z \in DigitZeros : c \in z..(z + 9))

\* the code points int() strips from both ends of a text
Whitespace ==
    {9, 10, 11, 12, 13, 32, 133, 160, 5760} \cup (8192..8202)
    \cup {8232, 8233, 8239, 8287, 12288}

\* sys.get_int_max_str_digits(): longer digit strings are refused
int_max_str_digits == 4300

\* str.replace(ch, ''): every occurrence of ch is removed
replace(s, ch) == SelectSeq(s, LAMBDA c : c # ch)

\* int() ignores leading and trailing whitespace
RECURSIVE lstrip(_)
lstrip(s) ==
    IF s # <<>> /\ Head(s) \in Whitespace THEN lstrip(Tail(s)) ELSE s

RECURSIVE rstrip(_)
rstrip(s) ==
    IF s # <<>> /\ s[Len(s)] \in Whitespace
    THEN rstrip(SubSeq(s, 1, Len(s) - 1)) ELSE s

\* the digits of an integer literal: non-empty, decimal digits, with single
\* underscores allowed between two digits
WellFormedDigits(s) ==
    /\ s # <<>>
    /\ \A i \in 1..Len(s) : IsDigit(s[i]) \/ s[i] = ord("_")
    /\ IsDigit(s[1]) /\ IsDigit(s[Len(s)])
    /\ \A i \in 1..(Len(s) - 1) : ~(s[i] = ord("_") /\ s[i + 1] = ord("_"))

\* the digits from the first digit that is not a zero on
Significant(s) ==
    LET nz == {i \in 1..Len(s) : DigitVal(s[i]) # 0}
    IN IF nz = {} THEN <<>>
       ELSE SubSeq(s, CHOOSE i \in nz : \A j \in nz : i <= j, Len(s))

\* the value of a string of digits, leading zeros skipped
RECURSIVE ValueOf(_)
ValueOf(s) ==
    IF s = <<>> THEN 0
    ELSE ValueOf(SubSeq(s, 1, Len(s) - 1)) * 10 + DigitVal(s[Len(s)])
DecimalValue(s) == ValueOf(Significant(s))

\* int(text): [ok |-> FALSE] stands for ValueError
int(text) ==
    LET t == rstrip(lstrip(text))
        signed == t # <<>> /\ Head(t) \in {ord("+"), ord("-")}
        body == IF signed THEN Tail(t) ELSE t
        digits == replace(body, ord("_"))
    IN IF WellFormedDigits(body) /\ Len(digits) <= int_max_str_digits
       THEN [ok |-> TRUE,
             val |-> IF signed /\ Head(t) = ord("-")
                     THEN 0 - DecimalValue(digits) ELSE DecimalValue(digits)]
       ELSE [ok |-> FALSE, val |-> 0]

ParseToken(text) == int(replace(replace(text, ord(".")), ord(",")))

(***************************************************************************)
(* Inputs: what one GET of web_scrape_url can produce                      *)
(***************************************************************************)
\* a text that int() accepts
Seven == Text(<<"7">>)
\* a digit string one longer than int() converts
TooLong == [i \in 1..(int_max_str_digits + 1) |-> ord("0")]
\* texts that int() rejects (28 is U+001C, which is not stripped)
Malformed == {Text(<<"n", "/", "a">>), Text(<<".", ",">>), Text(<<"1", "_">>),
              <<28, 55>>, TooLong}
ScenarioA == << Text(<<"6",".","8","1","1",".","4","4","4">>),
                Text(<<"6",".","6","4","0",".","2","1","6">>),
                Text(<<"1","6","1",".","8","5","3">>) >>
ScenarioD == ScenarioA \o << Text(<<"9",".","3","7","5">>),
                             Text(<<"1",".","0","8","0">>) >>
ScenarioSix == ScenarioD \o << Text(<<" ","1","3",",","6","7","8","\n">>) >>
\* &nbsp; 7 CR; ARABIC-INDIC THREE; + FULLWIDTH 1 _ 2; FF VT - 0 5 U+3000;
\* 4 CR LF
ScenarioUnicode == << <<160, 55, 13>>, <<1635>>, <<43, 65297, 95, 65298>>,
                      <<12, 11, 45, 48, 53, 12288>>, Text(<<"4", "\r", "\n">>) >>

TokenLists ==
    {[i \in 1..n |-> Seven] : n \in {0} \cup (3..MaxFields)}
    \cup {ScenarioA}
    \cup {SubSeq(ScenarioUnicode, 1, 3), SubSeq(ScenarioUnicode, 4, 5)}
    \cup {<<m>> : m \in Malformed}
    \cup {<<TooLong>> \o ScenarioA, ScenarioD \o <<Text(<<"n", "/", "a">>)>>}

\* exception classes and their direct base classes (__bases__), for the
\* classes of Python 3.11, requests and Streamlit listed here; no other class
\* is given bases
Bases(cls) ==
    CASE cls = "BaseException" -> {}
      [] cls \in {"Exception", "KeyboardInterrupt", "SystemExit",
                  "GeneratorExit", "BaseExceptionGroup", "CancelledError",
                  "ScriptControlException"} -> {"BaseException"}
      [] cls \in {"ValueError", "OSError", "RuntimeError", "LookupError",
                  "ArithmeticError", "AttributeError", "TypeError",
                  "MemoryError"} -> {"Exception"}
      [] cls = "ExceptionGroup" -> {"BaseExceptionGroup", "Exception"}
      [] cls \in {"KeyError", "IndexError"} -> {"LookupError"}
      [] cls = "UnicodeError" -> {"ValueError"}
      [] cls \in {"UnicodeDecodeError", "UnicodeEncodeError"} ->
            {"UnicodeError"}
      [] cls = "RecursionError" -> {"RuntimeError"}
      [] cls = "RequestException" -> {"OSError"}
      [] cls \in {"ConnectionError", "Timeout", "HTTPError",
                  "TooManyRedirects", "ChunkedEncodingError"} ->
            {"RequestException"}
      [] cls \in {"InvalidURL", "MissingSchema", "InvalidSchema"} ->
            {"RequestException", "ValueError"}
      [] cls \in {"SSLError", "ProxyError"} -> {"ConnectionError"}
      [] cls = "ConnectTimeout" -> {"ConnectionError", "Timeout"}
      [] cls = "ReadTimeout" -> {"Timeout"}
      [] cls \in {"RerunException", "StopException"} ->
            {"ScriptControlException"}

\* issubclass(cls, base)
RECURSIVE issubclass(_, _)
issubclass(cls, base) ==
    cls = base \/ \E b \in Bases(cls) : issubclass(b, base)

\* requests.get follows redirects (allow_redirects defaults to True): each
\* redirect response is answered with one more GET, and a redirect response
\* received after max_redirects redirects were followed raises
\* TooManyRedirects
max_redirects == 30

\* exceptions of requests.get (line 51) and raise_for_status (line 52) that
\* the first GET can end with, and all of them
FirstGetErrors == {"ConnectTimeout", "HTTPError", "ChunkedEncodingError"}
RequestErrors == FirstGetErrors \cup {"TooManyRedirects"}

\* how line 51-52 end (kind), the texts of the matched nodes of the final
\* response (tokens), and the GET requests that requests.get has sent (gets)
Redirected ==
    {[kind |-> "TooManyRedirects", tokens |-> <<>>, gets |-> max_redirects + 1],
     [kind |-> "ok", tokens |-> ScenarioSix, gets |-> 2]}
Responses ==
    [kind : FirstGetErrors, tokens : {<<>>}, gets : {1}]
    \cup [kind : {"ok"}, tokens : TokenLists, gets : {1}]
    \cup Redirected

(***************************************************************************)
(* State                                                                   *)
(***************************************************************************)
VARIABLES
    session_state,  \* st.session_state: auto_refresh, cases, global_cases,
                    \* suspect, specimen, api_status, last_update, and
                    \* last_updated once line 77 has stored it
    now,            \* what datetime.datetime.now() returned last (datetime.min
                    \* while it has not been called)
    numbers,        \* local `numbers` of the last call (<<>> if never bound)
    raised,         \* exception that the request or the parsing of the last
                    \* call raised inside the try block
    outcome,        \* of the last call of fetch_latest_data: "none" before
                    \* the first call, then "live" or "failed"
                    \* for a call that returned, "interrupted" for one that
                    \* a script control exception ended
    propagated,     \* exception that left fetch_latest_data, or "none"
    requests_sent,  \* GET requests sent by the last call
    live_at,        \* history: clock of the last call that returned live
    before          \* history: whether the last call failed as did the call
                    \* before it, and whether the last call returned live
                    \* and found suspect and specimen both different from
                    \* the defaults

vars == <<session_state, now, numbers, raised, outcome, propagated,
          requests_sent, live_at, before>>

\* readings of the local wall clock; all are later than datetime.min
Times == (datetime_min + 1)..MaxClock

\* value of the auto-refresh component in the session state: None (<<>>)
\* until the browser's timer has fired, then the count of its ticks (<<n>>)
None == <<>>
Count(v) == IF v = None THEN 0 ELSE v[1]

\* line 77: the text of a timestamp, to the second (the clock of the model
\* counts seconds)
strftime(t) == <<"%Y-%m-%d %H:%M:%S", t>>

\* lines 14 and 34-45 on a fresh session
Init ==
    /\ session_state = [auto_refresh |-> None,
                        cases |-> fallback_cases,
                        global_cases |-> fallback_global,
                        suspect |-> fallback_suspect,
                        specimen |-> fallback_specimen,
                        api_status |-> LiveData,
                        last_update |-> datetime_min]
    /\ now = datetime_min
    /\ numbers = <<>>
    /\ raised = "none"
    /\ outcome = "none"
    /\ propagated = "none"
    /\ requests_sent = 0
    /\ live_at = datetime_min
    /\ before = [failed |-> FALSE, aux_set |-> FALSE]

(***************************************************************************)
(* fetch_latest_data                                                       *)
(***************************************************************************)
Min(a, b) == IF a < b THEN a ELSE b

\* Python slice xs[:k]
Slice(xs, k) == SubSeq(xs, 1, Min(k, Len(xs)))

\* line 54: the list comprehension; any token that int() rejects aborts it
\* with ValueError and leaves `numbers` unbound
Extract(tokens) ==
    LET parsed == [i \in 1..Len(tokens) |-> ParseToken(tokens[i])]
    IN IF \A i \in 1..Len(tokens) : parsed[i].ok
       THEN [ok |-> TRUE, list |-> [i \in 1..Len(tokens) |-> parsed[i].val]]
       ELSE [ok |-> FALSE, list |-> <<>>]

\* lines 51-54 on every response of the model, evaluated once: how the
\* request ends and what the list comprehension makes of the tokens (not
\* reached when the request raises); responses that differ in neither are
\* one element
Unbound == [ok |-> FALSE, list |-> <<>>]
Fetched ==
    {[kind |-> r.kind, gets |-> r.gets,
      ex |-> IF r.kind = "ok" THEN Extract(r.tokens) ELSE Unbound] :
        r \in Responses}

\* line 56
Complete(nums) == Len(nums) >= 4

\* variant: active is derived instead of read from the 4th number
SuccessBranch_derived(s, nums, t) ==
    [s EXCEPT !.cases = <<nums[1], nums[2], nums[3],
                          nums[1] - (nums[2] + nums[3])>>,
              !.global_cases = nums[1],
              !.suspect = IF Len(nums) > 4 THEN nums[5] ELSE fallback_suspect,
              !.specimen = IF Len(nums) > 5 THEN nums[6] ELSE fallback_specimen,
              !.api_status = LatestData,
              !.last_update = t]

\* variant: an absent 5th or 6th number keeps the session's value
SuccessBranch_keepsPrior(s, nums, t) ==
    [s EXCEPT !.cases = Slice(nums, 4),
              !.global_cases = nums[1],
              !.suspect = IF Len(nums) > 4 THEN nums[5] ELSE s.suspect,
              !.specimen = IF Len(nums) > 5 THEN nums[6] ELSE s.specimen,
              !.api_status = LatestData,
              !.last_update = t]

\* variant: the timestamp is not renewed
SuccessBranch_keepsTime(s, nums, t) ==
    [s EXCEPT !.cases = Slice(nums, 4),
              !.global_cases = nums[1],
              !.suspect = IF Len(nums) > 4 THEN nums[5] ELSE fallback_suspect,
              !.specimen = IF Len(nums) > 5 THEN nums[6] ELSE fallback_specimen,
              !.api_status = LatestData,
              !.last_update = s.last_update]

\* variant: the slice [:4] is forgotten
SuccessBranch_noSlice(s, nums, t) ==
    [s EXCEPT !.cases = nums,
              !.global_cases = nums[1],
              !.suspect = IF Len(nums) > 4 THEN nums[5] ELSE fallback_suspect,
              !.specimen = IF Len(nums) > 5 THEN nums[6] ELSE fallback_specimen,
              !.api_status = LatestData,
              !.last_update = t]

\* lines 57-62 (Python index k is TLA+ index k + 1)
SuccessBranch(s, nums, t) ==
    [s EXCEPT !.cases = Slice(nums, 4),
              !.global_cases = nums[1],
              !.suspect = IF Len(nums) > 4 THEN nums[5] ELSE fallback_suspect,
              !.specimen = IF Len(nums) > 5 THEN nums[6] ELSE fallback_specimen,
              !.api_status = LatestData,
              !.last_update = t]

\* variant: global_cases is read from the session's cases before they are reset
ExceptBranch_staleGlobal(s) ==
    [s EXCEPT !.cases = fallback_cases,
              !.global_cases = s.cases[1],
              !.suspect = fallback_suspect,
              !.specimen = fallback_specimen]

\* lines 67-70
ExceptBranch(s) ==
    [s EXCEPT !.cases = fallback_cases,
              !.global_cases = fallback_global,
              !.suspect = fallback_suspect,
              !.specimen = fallback_specimen]

\* line 65: `except Exception` catches every subclass of Exception
Caught(e) == issubclass(e, "Exception")

\* lines 51-64: the exception the try block ends with, "none" if it
\* completes; ex is the result of line 54 when the request succeeded
TryRaises(kind, ex) ==
    IF kind \in RequestErrors THEN kind
    ELSE IF ~ex.ok THEN "ValueError"
    ELSE IF ~Complete(ex.list) THEN "ValueError"
    ELSE "none"

\* The stores of the two branches, in program order.  Each is a store to
\* st.session_state, where Streamlit hands a pending rerun or stop request to
\* the script by raising a script control exception (a BaseException that is
\* no Exception) in place of the store; the stores before it stay.
SuccessStores == <<"cases", "global_cases", "suspect", "specimen",
                   "api_status", "last_update">>
ExceptStores == <<"cases", "global_cases", "suspect", "specimen">>
\* RerunException for a rerun request, StopException for a stop request
ScriptControl == {"RerunException", "StopException"}

\* a run without a control request, or the place at which one surfaces (the
\* k-th store of the branch run or, for a k past its stores, the accesses of
\* lines 76-77) and the exception it raises
Yields ==
    {<<0, "none">>} \cup ((1..(Len(SuccessStores) + 1)) \X ScriptControl)

\* the keys that the first n stores of a branch with the stores `order` write
Stored(order, n) == {order[i] : i \in 1..n}

\* session s after the stores to the keys `stored` of a branch that makes
\* s into `new`
StoresDone(s, new, stored) ==
    [s EXCEPT
        !.cases = IF "cases" \in stored THEN new.cases ELSE @,
        !.global_cases = IF "global_cases" \in stored THEN new.global_cases
                         ELSE @,
        !.suspect = IF "suspect" \in stored THEN new.suspect ELSE @,
        !.specimen = IF "specimen" \in stored THEN new.specimen ELSE @,
        !.api_status = IF "api_status" \in stored THEN new.api_status ELSE @,
        !.last_update = IF "last_update" \in stored THEN new.last_update
                        ELSE @]

\* key "auto_refresh" of line 14: the session takes the next count of the
\* component when the browser's timer has sent it with its rerun request,
\* before the script runs
st_autorefresh(s) == [s EXCEPT !.auto_refresh = <<Count(@) + 1>>]

\* line 77
StoreLastUpdated(s) == ("last_updated" :> strftime(s.last_update)) @@ s

\* The control path of one run: the request ends as `kind` after `gets` GET
\* requests, ex is the result of line 54, yield the control request of the
\* run.  e is what the try block ends with, entered whether a branch of
\* stores is run, order its stores, cut whether the control request ends the
\* call and cut_by with which exception, done the stores made and stored
\* their keys, reads whether line 62 reads the clock, shown whether the run
\* gets past line 77.
Path(kind, gets, ex, yield) ==
    LET e == TryRaises(kind, ex)
        entered == e = "none" \/ Caught(e)
        order == IF e = "none" THEN SuccessStores ELSE ExceptStores
        cut == entered /\ yield[1] \in 1..Len(order)
        done == IF ~entered THEN 0
                ELSE IF cut THEN yield[1] - 1 ELSE Len(order)
    IN [gets |-> gets, list |-> ex.list, e |-> e, entered |-> entered,
        order |-> order, cut |-> cut, done |-> done,
        stored |-> Stored(order, done),
        cut_by |-> IF cut THEN yield[2] ELSE "none",
        reads |-> e = "none" /\ done >= Len(SuccessStores) - 1,
        shown |-> entered /\ yield[1] = 0]

\* the paths of the model, evaluated once
Paths == {Path(f.kind, f.gets, f.ex, yield) : f \in Fetched, yield \in Yields}

\* One run of the script that calls fetch_latest_data (line 74), as far as
\* line 77: the call along path p, then lines 76-77.  t is what datetime.now()
\* returns when line 62 is reached; it may be earlier than the reading before
\* (the local wall clock is not monotonic: end of daylight saving, clock
\* adjustment).
fetch_latest_data(p) ==
    \E t \in (IF p.reads THEN Times ELSE {now}) :
    \E new \in {IF p.e = "none" THEN SuccessBranch(session_state, p.list, t)
                ELSE ExceptBranch(session_state)} :
    \E after \in {StoresDone(session_state, new, p.stored)} :
       /\ requests_sent' = p.gets
       /\ numbers' = p.list
       /\ raised' = p.e
       /\ outcome' = IF p.cut THEN "interrupted"
                     ELSE IF p.e = "none" THEN "live" ELSE "failed"
       /\ session_state' = IF p.shown THEN StoreLastUpdated(after) ELSE after
       /\ propagated' = IF p.cut THEN p.cut_by
                        ELSE IF ~p.entered THEN p.e ELSE "none"
       /\ now' = t
       /\ live_at' = IF p.e = "none" /\ ~p.cut THEN t ELSE live_at
       /\ before' =
            [failed |-> outcome' = "failed" /\ outcome = "failed",
             aux_set |-> /\ outcome' = "live"
                         /\ session_state.suspect # fallback_suspect
                         /\ session_state.specimen # fallback_specimen]

\* the timer of the auto-refresh component fires (every 300000 ms) and the
\* session takes its count; the run it requests is a step of its own
auto_refresh ==
    /\ Count(session_state.auto_refresh) < MaxRefresh
    /\ session_state' = st_autorefresh(session_state)
    /\ UNCHANGED <<now, numbers, raised, outcome, propagated, requests_sent,
                   live_at, before>>

Next ==
    \/ \E p \in Paths : fetch_latest_data(p)
    \/ auto_refresh

Spec == Init /\ [][Next]_vars

TypeOK ==
    /\ now \in Times \cup {datetime_min}
    /\ outcome \in {"none", "live", "failed", "interrupted"}
    /\ propagated \in ScriptControl \cup {"none"}
    /\ raised \in RequestErrors \cup {"ValueError", "none"}
    /\ session_state.api_status \in {LiveData, LatestData}
    /\ session_state.last_update \in datetime_min..MaxClock
    /\ session_state.auto_refresh \in {None} \cup {<<n>> : n \in 1..MaxRefresh}
    /\ requests_sent \in 0..(max_redirects + 1)
    /\ DOMAIN session_state \in
          {{"auto_refresh", "cases", "global_cases", "suspect", "specimen",
            "api_status", "last_update"} \cup x : x \in SUBSET {"last_updated"}}


(***************************************************************************)
(* Properties                                                              *)
(***************************************************************************)
cases == session_state.cases
\* the last call returned, through the except branch or the success branch
Failed == outcome = "failed"
Live == outcome = "live"
\* the try block of the last call got as far as binding `numbers` to k integers
Yielded(k) == outcome # "none" /\ raised \notin RequestErrors /\ Len(numbers) = k

\* C1: whenever the most recent acquisition failed, the data fields are
\* confirmed 6811444, recovered 6640216, deaths 161853, active 9375, global
\* 676681574, suspect 1080, specimen 13678.
C1_FallbackSnapshotActive9375 ==
    Failed => /\ cases = <<6811444, 6640216, 161853, 9375>>
              /\ session_state.global_cases = 676681574
              /\ session_state.suspect = 1080
              /\ session_state.specimen = 13678

\* C2: after an acquisition, the status indicator is a live one only when the
\* most recent acquisition succeeded; after a failed one it is not.
LiveIndicators == {LiveData, LatestData}
C2_StatusFollowsLastAcquisition ==
    (Failed \/ Live) => (session_state.api_status \in LiveIndicators <=> Live)

\* C3 as stated: three extracted numbers are accepted as LIVE with the three
\* numbers in order and active = confirmed - (recovered + deaths).
C3_ThreeFieldsLive ==
    (Yielded(3) /\ propagated = "none") =>
        /\ Live
        /\ session_state.api_status = LatestData
        /\ cases = <<numbers[1], numbers[2], numbers[3],
                     numbers[1] - (numbers[2] + numbers[3])>>

\* C4: four or more extracted numbers give a LIVE snapshot whose confirmed,
\* recovered, deaths are the first three numbers and whose active is the 4th
\* number as it is.
C4_ActiveIsFourthField ==
    (Yielded(Len(numbers)) /\ Len(numbers) >= 4 /\ propagated = "none") =>
        /\ Live
        /\ session_state.api_status = LatestData
        /\ Len(cases) = 4
        /\ \A i \in 1..4 : cases[i] = numbers[i]

C4_Witness ==
    /\ Live
    /\ Len(numbers) >= 4
    /\ cases[4] = numbers[4]
    /\ numbers[4] # numbers[1] - (numbers[2] + numbers[3])

C6_AbsentFieldKeepsPrior ==
    [][outcome' = "live" =>
        /\ session_state'.suspect =
              IF Len(numbers') >= 5 THEN numbers'[5] ELSE session_state.suspect
        /\ session_state'.specimen =
              IF Len(numbers') >= 6 THEN numbers'[6]
              ELSE session_state.specimen]_vars

\* C6 amended: in a LIVE acquisition suspect is the 5th number when there are
\* at least 5 and specimen the 6th when there are at least 6; an absent 5th
\* (6th) number sets suspect (specimen) to the constant 1080 (13678),
\* whatever it was before.
C6_AbsentFieldResetsToDefault ==
    Live =>
        /\ session_state.suspect =
              IF Len(numbers) >= 5 THEN numbers[5] ELSE 1080
        /\ session_state.specimen =
              IF Len(numbers) >= 6 THEN numbers[6] ELSE 13678

C6_Witness ==
    /\ Live
    /\ Len(numbers) = 4
    /\ before.aux_set
    /\ session_state.suspect = fallback_suspect
    /\ session_state.specimen = fallback_specimen

\* C7: every call of fetch_latest_data returns normally to its caller,
\* whatever the request or the parsing does: nothing propagates from it, it
\* has sent exactly one request, and a complete snapshot is in place, the
\* fallback one when the request or the parsing failed.
C7_Total ==
    outcome # "none" =>
        /\ propagated = "none"
        /\ outcome \in {"live", "failed"}
        /\ requests_sent = 1
        /\ Len(cases) = 4
        /\ raised # "none" =>
              /\ cases = fallback_cases
              /\ session_state.global_cases = fallback_global
              /\ session_state.suspect = fallback_suspect
              /\ session_state.specimen = fallback_specimen

\* C8: a failed acquisition that follows a failed acquisition changes no
\* field that fetch_latest_data maintains (data fields and status alike, and
\* the timestamp too); auto_refresh and last_updated are not among them.
Snapshot(s) ==
    [k \in {"cases", "global_cases", "suspect", "specimen", "api_status",
            "last_update"} |-> s[k]]
C8_FailureIdempotent ==
    [][(outcome = "failed" /\ outcome' = "failed") =>
            Snapshot(session_state') = Snapshot(session_state)]_vars

C8_Witness ==
    /\ Failed /\ before.failed
    /\ session_state.api_status = LatestData
    /\ raised = "ChunkedEncodingError"

\* C9: session cases always is a list of 4 integers, one per label.
C9_FourCases ==
    /\ Len(cases) = Len(labels)
    /\ DOMAIN cases = 1..4
    /\ \A i \in 1..4 : cases[i] \in Int

C9_Witness ==
    /\ Live /\ Len(numbers) > 4 /\ Len(cases) = 4

\* C10: in every state the display code reads (those a returned call
\* leaves), api_status is the 'Latest Data from Ministry of Health' value
\* exactly when last_update is later than the minimum, i.e. when some
\* acquisition of the session succeeded.
C10_StatusAndTimeTogether ==
    (Failed \/ Live) =>
        /\ session_state.api_status = LatestData
              <=> session_state.last_update > datetime_min
        /\ session_state.last_update > datetime_min
              <=> live_at > datetime_min

=============================================================================
